---------------------------- MODULE Spec2Model ----------------------------
(***************************************************************************)
(* State-machine model of the ArScene React component (WebXR hit-test      *)
(* placement of a 3D model) and of the page that hosts it.                 *)
(*                                                                         *)
(* Lengths are integers in hundredths of a scene unit (0.05 is 5, -0.5 is  *)
(* -50).  An orientation is an integer naming a rotation, 0 the identity.  *)
(* A 4x4 object matrix is kept as the translation, rotation and uniform    *)
(* scale (in percent) it is composed of.                                   *)
(*                                                                         *)
(* The platform (navigator.xr, XRSession, XRFrame) and the rendering       *)
(* library (WebGLRenderer, WebXRManager, Object3D, GLTFLoader) are the     *)
(* environment of the component; their steps are the actions that resolve  *)
(* a promise or deliver an event.                                          *)
(*                                                                         *)
(* Objects are told apart by what the component can observe of them: a     *)
(* renderer is the current one (rendererRef.current) or an earlier one, a  *)
(* hit-test source or reference space belongs to the platform's latest     *)
(* session ("own") or to an earlier one ("stale").                         *)
(*                                                                         *)
(* The certificate script (generate-cert.js) is a separate process; its    *)
(* runs are the behaviours of CertSpec.                                    *)
(***************************************************************************)
EXTENDS Integers, Sequences, FiniteSets

\* ------------------------------------------------------------------ bounds
\* startARSession calls in flight at once.
MaxInFlight == 1
\* Asset loads, and support queries, outstanding at once.
MaxPending == 1
\* Longest hit-test result list a frame delivers.
MaxHits == 1

\* --------------------------------------------------------- program constants
\* modelRef.current.position.y += 0.05
SelectOffsetY == 5
\* modelRef.current.position.set(0, 0, -0.5)
ARDefaultZ == -50
\* new Object3D: scale (1, 1, 1)
UnitScale == 100
\* quaternion of a new Object3D, and of rotation.set(0, 0, 0)
IdQ == 0

Origin == <<0, 0, 0>>

referenceSpaceTypes == <<"local-floor", "bounded-floor", "local", "viewer">>

MsgNoXR == "WebXR not available."
MsgHitTest == "Could not initialize hit testing. Some AR features may be limited."
MsgStart == "Could not start AR session. Make sure your device supports WebXR."
MsgUnsupported == "AR is not supported on your device. Please try on a mobile device with AR support."
MsgCheckError == "Error checking AR support. Please try on a different device or browser."
MsgNoBrowserXR == "WebXR is not supported in your browser. Please try Chrome on Android or Safari on iOS."

\* ------------------------------------------------------------- environment
\* What navigator offers: no xr property, or an XRSystem whose
\* isSessionSupported('immersive-ar') answers true, answers false, or rejects.
Platforms == {"absent", "supported", "unsupported", "error"}

\* Bounding-box centre of the scaled asset (Box3.getCenter): an asset centred
\* on its origin.
Centers == {Origin}

NoPose == [none |-> TRUE]
NoHit == [empty |-> TRUE]
NoQuery == [never |-> TRUE]
\* Poses of hit-test results: a surface point away from the origin, turned.
Poses == { [p |-> <<100, 0, -200>>, q |-> 1] }

\* Hit-test result lists of a frame: each result's getPose() is a pose or null.
HitResults == UNION { [1..n -> Poses \cup {NoPose}] : n \in 0..MaxHits }

\* Readings of Date.now() (ms) at a frame: the sine of pulseAnimation is 0 at
\* the first and at its minimum at the second.
Clocks == {0, 942}

\* 1 + Math.sin(now * 0.005) * 0.1 in percent, to the nearest hundredth.
pulseScale(now) ==
  CASE now = 0 -> 100
    [] now = 942 -> 90

\* The scales pulseAnimation gives the marker.
PulseScales == { pulseScale(now) : now \in Clocks }

\* ------------------------------------------------------------ object helpers
\* Matrix4.compose(position, quaternion, scale)
Compose(p, q, s) == [p |-> p, q |-> q, s |-> s]

\* pose.transform.matrix: a rigid transform
PoseMatrix(pose) == Compose(pose.p, pose.q, UnitScale)

Neg(v) == <<0 - v[1], 0 - v[2], 0 - v[3]>>

NoModel == [loaded |-> FALSE, position |-> Origin, quaternion |-> IdQ,
            visible |-> FALSE]

\* new THREE.Group(), visible = false
NewMarker == [visible |-> FALSE, position |-> Origin, quaternion |-> IdQ,
              scale |-> UnitScale, matrix |-> Compose(Origin, IdQ, UnitScale)]

NoSession == [state |-> "none", current |-> FALSE, captured |-> FALSE,
              floor |-> "unknown", three |-> "off"]

\* An ended session: nothing of it is held or observed any more.
EndedSession == [NoSession EXCEPT !.state = "ended"]

NoRef == [of |-> "null", type |-> "none"]

IdleAttempt == [pc |-> "idle", reqs |-> <<>>]

Stages == 1..5

\* ----------------------------------------- certificate script (helpers)
\* The operations of the script in program order: the creation of the output
\* directory (7-9), then inside the try the three openssl runs and the
\* removal of the request file (14-23).
stepAfter(step) ==
  CASE step = "mkdir" -> "key"
    [] step = "key" -> "csr"
    [] step = "csr" -> "cert"
    [] step = "cert" -> "unlink"
    [] OTHER -> "exited"

\* Variant of nextPc that goes on to the next operation after a failed one;
\* C12 must not hold of it.
nextPcContinuing(step, ok) == stepAfter(step)

\* Where the process is after an operation: a throw ends it, through the
\* catch and process.exit(1) or, outside the try, as an uncaught exception.
nextPc(step, ok) == IF ok THEN stepAfter(step) ELSE "exited"

\* The process after an operation returned (ok) or threw.
advance(sc, step, ok) ==
  [sc EXCEPT !.pc = nextPc(step, ok),
             !.ran = IF step = "mkdir" THEN @ ELSE Append(@, step),
             !.failed = IF ok THEN @ ELSE step,
             !.exit = IF ok THEN 0 ELSE 1]

\* A file of the output directory: absent, left complete ("old") or
\* incomplete ("partial") by an earlier run, or written by this run ("new").
LeftFiles == {"none", "old", "partial"}

\* What a failed openssl run leaves of its output file: it may not have
\* touched it, or have opened and not completed it.
afterFailure(f) == {f, "partial"}

\* The process before its first statement, the output directory absent.
ScriptNotRun == [pc |-> "mkdir", dir |-> FALSE, key |-> "none", csr |-> "none",
                 cert |-> "none", ran |-> <<>>, failed |-> "none", exit |-> 0]

\* The states a run can start in: no output directory, or one with any of
\* the three files left by an earlier run.
ScriptStarts ==
  {ScriptNotRun} \cup
  { [ScriptNotRun EXCEPT !.dir = TRUE, !.key = k, !.csr = c, !.cert = t] :
      k \in LeftFiles, c \in LeftFiles, t \in LeftFiles }

VARIABLES
  xr,                        \* the platform, fixed for a behaviour
  center,                    \* bounding-box centre of the asset
  isCameraFlipped,           \* page state
  isARSupported,             \* component state, as of the latest render
  nextSupported,             \* isARSupported with the queued setIsARSupported applied
  errorMessage,              \* component state, as of the latest render
  nextMessage,               \* errorMessage with the queued setErrorMessage applied
  effectDue,                 \* a committed render changed a dependency; the effect has yet to run
  isARSessionActive,         \* component state, as of the latest render
  nextActive,                \* isARSessionActive with the queued setIsARSessionActive applied
  capturedActive,            \* isARSessionActive as the latest effect run captured it
  pendingChecks,             \* isSessionSupported promises not yet settled
  pendingLoads,              \* loader.load calls that have not called back
  model,                     \* the object modelRef.current refers to
  marker,                    \* the object markerRef.current refers to
  hitTestSourceRef,          \* "null", or whose session's source: "own", "stale"
  referenceSpaceRef,         \* NoRef, or whose session's space and its type
  session,                   \* the latest immersive session of the platform
  attempt,                   \* the startARSession call on the pending request or latest session
  stale,                     \* calls still waiting on an ended session, by stage
  loopDead,                  \* the XR animation loop stopped on an exception
  lastHit,                   \* what the latest hit-test query gave the marker: NoHit, or the pose
  script                     \* the certificate script's process and its output directory

vars == <<xr, center, isCameraFlipped, isARSupported, nextSupported, errorMessage,
          nextMessage, effectDue,
          isARSessionActive, nextActive, capturedActive, pendingChecks, pendingLoads,
          model, marker, hitTestSourceRef,
          referenceSpaceRef, session, attempt, stale, loopDead, lastHit,
          script>>

\* What no step of the component changes: the platform, the asset, and the
\* certificate script's process.
platformVars == <<xr, center, script>>
reactVars == <<isCameraFlipped, isARSupported, nextSupported, errorMessage,
              nextMessage, effectDue,
              isARSessionActive, nextActive>>
asyncVars == <<pendingChecks, pendingLoads>>
refVars == <<hitTestSourceRef, referenceSpaceRef>>

\* The component after its first render and the first run of its effects:
\* the message of line 101 is queued, not yet rendered.  The page's button
\* may have been clicked while the component was being loaded (page.tsx 7-9),
\* so the prop of the first render is either value.
ComponentInit ==
  /\ xr \in Platforms
  /\ center \in Centers
  /\ isCameraFlipped \in BOOLEAN
  /\ isARSupported = FALSE
  /\ nextSupported = FALSE
  /\ errorMessage = ""
  /\ nextMessage = IF xr = "absent" THEN MsgNoBrowserXR ELSE ""
  /\ effectDue = FALSE
  /\ isARSessionActive = FALSE
  /\ nextActive = FALSE
  /\ capturedActive = FALSE
  /\ pendingChecks = IF xr = "absent" THEN 0 ELSE 1
  /\ pendingLoads = 1
  /\ model = NoModel
  /\ marker = NewMarker
  /\ hitTestSourceRef = "null"
  /\ referenceSpaceRef = NoRef
  /\ session = NoSession
  /\ attempt = IdleAttempt
  /\ stale = [k \in Stages |-> 0]
  /\ loopDead = FALSE
  /\ lastHit = NoQuery

\* The component mounted; the certificate script is not run.
Init == ComponentInit /\ script = ScriptNotRun

\* ------------------------------------------------------- render (JSX, 358-407)
\* {isARSupported && <Button .../>}
ControlRendered == isARSupported

\* {isARSessionActive ? 'Stop AR' : 'Start AR'}
ControlLabel == IF isARSessionActive THEN "Stop AR" ELSE "Start AR"

\* {errorMessage && <div>{errorMessage}</div>}, of the latest render
MessageShown == errorMessage /= ""

\* Whether the component's message, with every setErrorMessage so far
\* applied, is non-empty (22).
MessageSet == nextMessage /= ""

\* controls.enabled = !isARSessionActive, of the latest effect run (322)
ControlsEnabled == ~capturedActive

\* ------------------------------------------------- scene effect (88-356)
\* The message the effect's support check queues (100-102).
effectMessage(platform, msg) ==
  IF platform = "absent" THEN MsgNoBrowserXR ELSE msg

\* isSessionSupported promises pending after the effect issued its own (90-91).
effectChecks(platform, n) == IF platform = "absent" THEN n ELSE n + 1

\* Whether React re-runs the effect: a value of [isCameraFlipped, isARSupported]
\* changed (356).
depsChanged(flip1, sup1, flip2, sup2) == flip1 /= flip2 \/ sup1 /= sup2

\* .then((supported) => ...) / .catch(...) of isSessionSupported (91-99)
supportedState(platform, cur) ==
  IF platform = "error" THEN cur ELSE platform = "supported"

\* Variant of supportedMessage that leaves the message as it was; C7 must
\* not hold of it.
supportedMessageKept(platform, msg) == msg

supportedMessage(platform, msg) ==
  CASE platform = "unsupported" -> MsgUnsupported
    [] platform = "error" -> MsgCheckError
    [] OTHER -> msg

\* The session as the component sees it once rendererRef.current is a new
\* renderer: the cleanup neither ends the session nor moves it.
afterRerun(s) ==
  IF s.state \in {"active", "ending"} THEN [s EXCEPT !.current = FALSE] ELSE s

\* A settled isSessionSupported promise: the .then / .catch callback
\* (91-99).  setIsARSupported and setErrorMessage queue their values for the
\* next render.
SupportResolved ==
  /\ pendingChecks > 0
  /\ pendingChecks' = pendingChecks - 1
  /\ nextSupported' = supportedState(xr, nextSupported)
  /\ nextMessage' = supportedMessage(xr, nextMessage)
  /\ UNCHANGED <<platformVars, isCameraFlipped, isARSupported, errorMessage,
                 effectDue, isARSessionActive, nextActive, capturedActive,
                 pendingLoads, model, marker, refVars, session, attempt, stale,
                 loopDead, lastHit>>

\* Whether a state update queued outside a React event awaits its render.
renderDue ==
  \/ isARSupported /= nextSupported
  \/ isARSessionActive /= nextActive
  \/ errorMessage /= nextMessage

\* React renders the queued isARSupported, isARSessionActive and errorMessage
\* in a later task (updates made outside a React event share a render) and
\* commits the JSX: control, label, handler and message.  An effect still
\* owed to an earlier render runs before a render starts.  If a dependency
\* changed (356) the scene effect is owed; it runs in a task after the commit.
Rerender ==
  /\ renderDue
  /\ ~effectDue
  /\ isARSupported' = nextSupported
  /\ isARSessionActive' = nextActive
  /\ errorMessage' = nextMessage
  /\ effectDue' = depsChanged(isCameraFlipped, isARSupported,
                              isCameraFlipped, nextSupported)
  /\ UNCHANGED <<platformVars, isCameraFlipped, nextSupported, nextMessage,
                 nextActive, capturedActive, asyncVars, model, marker, refVars,
                 session, attempt, stale, loopDead, lastHit>>

\* The scene effect owed to a committed render runs: its cleanup (346-355),
\* then a new scene, renderer, controller, marker, asset load, listeners,
\* controls (with the isARSessionActive of that render) and support check.
EffectRerun ==
  /\ effectDue
  /\ effectDue' = FALSE
  /\ nextMessage' = effectMessage(xr, nextMessage)
  /\ capturedActive' = isARSessionActive
  /\ pendingChecks' = effectChecks(xr, pendingChecks)
  /\ pendingLoads' = pendingLoads + 1
  /\ marker' = NewMarker
  /\ lastHit' = NoQuery
  /\ session' = afterRerun(session)
  /\ UNCHANGED <<platformVars, isCameraFlipped, isARSupported, nextSupported,
                 errorMessage, isARSessionActive, nextActive, model, refVars,
                 attempt, stale, loopDead>>

\* Effect runs owed besides the one a click causes: to a committed render,
\* or to a support answer that will change isARSupported.
FlipReserve ==
  IF effectDue \/ (xr = "supported" /\ ~isARSupported) THEN 1 ELSE 0

\* The page's button: setIsCameraFlipped(!isCameraFlipped), rendered at the
\* end of the click, before and without the updates queued outside a React
\* event; an effect still owed runs before that render starts.  The prop
\* changes, so the scene effect of ArScene runs again within the click, with
\* the isARSessionActive of that render.
FlipClick ==
  /\ pendingLoads + FlipReserve < MaxPending
  /\ pendingChecks + FlipReserve < MaxPending
  /\ isCameraFlipped' = ~isCameraFlipped
  /\ effectDue' = FALSE
  /\ capturedActive' = isARSessionActive
  /\ nextMessage' = effectMessage(xr, nextMessage)
  /\ pendingChecks' = IF effectDue
                        THEN effectChecks(xr, effectChecks(xr, pendingChecks))
                        ELSE effectChecks(xr, pendingChecks)
  /\ pendingLoads' = IF effectDue THEN pendingLoads + 2 ELSE pendingLoads + 1
  /\ marker' = NewMarker
  /\ lastHit' = NoQuery
  /\ session' = afterRerun(session)
  /\ UNCHANGED <<platformVars, isARSupported, nextSupported, errorMessage,
                 isARSessionActive, nextActive, model, refVars, attempt, stale,
                 loopDead>>

\* loader.load onLoad (204-233): scale, show, centre, add to the scene
onLoad(c) ==
  [loaded |-> TRUE, position |-> Neg(c), quaternion |-> IdQ, visible |-> TRUE]

LoadDone ==
  /\ pendingLoads > 0
  /\ pendingLoads' = pendingLoads - 1
  /\ model' = onLoad(center)
  /\ UNCHANGED <<platformVars, reactVars, capturedActive, pendingChecks, marker,
                 refVars, session, attempt, stale, loopDead, lastHit>>

\* loader.load onError (237-239): logged only
LoadError ==
  /\ pendingLoads > 0
  /\ pendingLoads' = pendingLoads - 1
  /\ UNCHANGED <<platformVars, reactVars, capturedActive, pendingChecks, model,
                 marker, refVars, session, attempt, stale, loopDead, lastHit>>

\* --------------------------------------------- startARSession (25-80)
\* Calls in flight: the one on the pending request or latest session, and
\* those left waiting on a session that has ended.
InFlight == (IF attempt.pc = "idle" THEN 0 ELSE 1)
            + stale[1] + stale[2] + stale[3] + stale[4] + stale[5]

\* Whether a request of the call in flight can still be granted: its session
\* has not ended.
Live == session.state = "active"

\* A source or space of the latest session belongs to an earlier one once the
\* platform grants a new session.
aged(of) == IF of = "own" THEN "stale" ELSE of

\* The type of a space is kept only while the space can still be used.
agedRef(ref) == IF ref.of = "own" THEN [of |-> "stale", type |-> "none"] ELSE ref

\* Variant of nextRefIndex that passes over the second entry of the list; C8
\* must not hold of it.
nextRefIndexSkipping(k) ==
  IF k = 1 THEN 3 ELSE IF k < Len(referenceSpaceTypes) THEN k + 1 ELSE 0

\* The for loop over referenceSpaceTypes after the request for entry k has
\* rejected: the index to request next, 0 when the list is exhausted.
nextRefIndex(k) == IF k < Len(referenceSpaceTypes) THEN k + 1 ELSE 0

\* Variant of issuesHitTest that never makes the request; C2 must not hold
\* of it.
issuesHitTestNever(hasFn) == FALSE

\* typeof session.requestHitTestSource === 'function': whether the request is
\* made, given whether the session object has the operation.
issuesHitTest(hasFn) == hasFn

\* Variant of hitTestMessage that clears the message when the request did
\* not reject; C19 must not hold of it.
hitTestMessageClearing(outcome, msg) ==
  IF outcome = "reject" THEN MsgHitTest ELSE ""

\* The message left by the catch of the inner try (72-75).
hitTestMessage(outcome, msg) == IF outcome = "reject" THEN MsgHitTest ELSE msg

\* What hitTestSourceRef holds after the request settled (67-70).
hitTestStored(outcome, cur) == IF outcome = "source" THEN "own" ELSE cur

\* navigator.xr.requestSession rejects at once while an immersive session
\* exists or another request for one is pending.
Busy == session.state \in {"active", "ending"} \/ attempt.pc = "session"

\* The message startARSession sets when it fails within the click (27, 78).
startMessage(platform) == IF platform = "absent" THEN MsgNoXR ELSE MsgStart

\* The Start AR button: onClick = startARSession, up to the first await that
\* does not settle at once.  Without navigator.xr (26-29), or when
\* requestSession rejects at once (the outer catch, 76-78, in a microtask of
\* the click), setErrorMessage is rendered within the click, before and
\* without the updates queued outside a React event; an effect still owed
\* runs before that render starts.
StartClick ==
  /\ ControlRendered
  /\ ~isARSessionActive
  /\ IF xr = "absent" \/ Busy
       THEN /\ errorMessage' = startMessage(xr)
            /\ nextMessage' = startMessage(xr)
            /\ attempt' = attempt
            /\ effectDue' = FALSE
            /\ IF effectDue
                 THEN /\ capturedActive' = isARSessionActive
                      /\ pendingChecks' = effectChecks(xr, pendingChecks)
                      /\ pendingLoads' = pendingLoads + 1
                      /\ marker' = NewMarker
                      /\ lastHit' = NoQuery
                      /\ session' = afterRerun(session)
                 ELSE UNCHANGED <<capturedActive, asyncVars, marker, lastHit,
                                  session>>
       ELSE /\ InFlight < MaxInFlight
            /\ attempt' = [attempt EXCEPT !.pc = "session"]
            /\ UNCHANGED <<errorMessage, nextMessage, effectDue, capturedActive,
                           asyncVars, marker, lastHit, session>>
  /\ UNCHANGED <<platformVars, isCameraFlipped, isARSupported, nextSupported,
                 isARSessionActive, nextActive, model, refVars, stale,
                 loopDead>>

\* requestSession resolved: setSession on the current renderer, then the
\* first reference-space request of the loop.
SessionGranted ==
  /\ attempt.pc = "session"
  /\ xr = "supported"
  /\ session' = [state |-> "active", current |-> TRUE,
                 captured |-> capturedActive, floor |-> "unknown",
                 three |-> "pending"]
  /\ attempt' = [pc |-> "ref", reqs |-> <<referenceSpaceTypes[1]>>]
  /\ hitTestSourceRef' = aged(hitTestSourceRef)
  /\ referenceSpaceRef' = agedRef(referenceSpaceRef)
  /\ UNCHANGED <<platformVars, reactVars, capturedActive, asyncVars, model,
                 marker, stale, loopDead, lastHit>>

\* requestSession rejected later (permission denied, no device): the outer catch.
SessionRejected ==
  /\ attempt.pc = "session"
  /\ attempt' = IdleAttempt
  /\ nextMessage' = MsgStart
  /\ UNCHANGED <<platformVars, isCameraFlipped, isARSupported, nextSupported,
                 errorMessage, effectDue, isARSessionActive, nextActive,
                 capturedActive, asyncVars, model, marker, refVars, session,
                 stale, loopDead, lastHit>>

\* session.requestReferenceSpace('local-floor') answers the same to the loop
\* and to the renderer's own request.
floorAfter(type, granted) ==
  IF type = "local-floor" THEN (IF granted THEN "yes" ELSE "no") ELSE session.floor

\* A reference-space request of the loop resolved: break, store the space,
\* then the hit-test request if the session has the operation.
RefSpaceGrantedWith(hasFn) ==
  LET type == referenceSpaceTypes[Len(attempt.reqs)]
  IN /\ attempt.pc = "ref"
     /\ Live
     /\ type = "local-floor" => session.floor /= "no"
     /\ referenceSpaceRef' = [of |-> "own", type |-> type]
     /\ session' = [session EXCEPT !.floor = floorAfter(type, TRUE)]
     /\ attempt' = IF issuesHitTest(hasFn) THEN [pc |-> "hit", reqs |-> <<>>]
                                           ELSE IdleAttempt
     /\ UNCHANGED <<platformVars, reactVars, capturedActive, asyncVars, model,
                    marker, hitTestSourceRef, stale, loopDead, lastHit>>

RefSpaceGranted == \E hasFn \in BOOLEAN : RefSpaceGrantedWith(hasFn)

\* A reference-space request of the loop rejected: the next type, or the
\* throw of 'No supported reference space found' into the outer catch.
RefSpaceRejected ==
  LET k == Len(attempt.reqs)
      type == referenceSpaceTypes[k]
      n == nextRefIndex(k)
  IN /\ attempt.pc = "ref"
     /\ Live /\ type = "local-floor" => session.floor /= "yes"
     /\ session' = IF Live
                     THEN [session EXCEPT !.floor = floorAfter(type, FALSE)]
                     ELSE session
     /\ IF n /= 0
          THEN /\ attempt' = [attempt EXCEPT !.reqs =
                                  Append(@, referenceSpaceTypes[n])]
               /\ nextMessage' = nextMessage
          ELSE /\ attempt' = IdleAttempt
               /\ nextMessage' = MsgStart
     /\ UNCHANGED <<platformVars, isCameraFlipped, isARSupported, nextSupported,
                    errorMessage, effectDue, isARSessionActive, nextActive,
                    capturedActive, asyncVars,
                    model, marker,
                    refVars, stale, loopDead, lastHit>>

\* requestHitTestSource settled: a source, no source, or a rejection (always
\* a rejection once end() was called on the session).
HitTestSettledWith(outcome) ==
  /\ attempt.pc = "hit"
  /\ ~Live => outcome = "reject"
  /\ hitTestSourceRef' = hitTestStored(outcome, hitTestSourceRef)
  /\ nextMessage' = hitTestMessage(outcome, nextMessage)
  /\ attempt' = IdleAttempt
  /\ UNCHANGED <<platformVars, isCameraFlipped, isARSupported, nextSupported,
                 errorMessage, effectDue, isARSessionActive, nextActive,
                 capturedActive, asyncVars,
                 model, marker,
                 referenceSpaceRef, session, stale, loopDead, lastHit>>

HitTestSettled ==
  \E outcome \in {"source", "null", "reject"} : HitTestSettledWith(outcome)

\* The call in flight when its session ends: it stays in flight, waiting on
\* a request that can only reject.  Stage k <= 4 waits for the request of type
\* k of the loop, stage 5 for the hit-test source.
StageOf(a) == IF a.pc = "ref" THEN Len(a.reqs) ELSE 5

leftWaiting(st, a) ==
  IF a.pc \in {"ref", "hit"} THEN [st EXCEPT ![StageOf(a)] = @ + 1] ELSE st

\* A reference-space request on an ended session rejected.
StaleRefSpaceRejected(k) ==
  LET n == nextRefIndex(k)
  IN /\ k <= Len(referenceSpaceTypes)
     /\ stale[k] > 0
     /\ IF n /= 0
          THEN /\ stale' = [stale EXCEPT ![k] = @ - 1, ![n] = @ + 1]
               /\ nextMessage' = nextMessage
          ELSE /\ stale' = [stale EXCEPT ![k] = @ - 1]
               /\ nextMessage' = MsgStart
     /\ UNCHANGED <<platformVars, isCameraFlipped, isARSupported, nextSupported,
                    errorMessage, effectDue, isARSessionActive, nextActive,
                    capturedActive, asyncVars,
                    model, marker,
                    refVars, session, attempt, loopDead, lastHit>>

\* A hit-test source request on an ended session rejected.
StaleHitTestRejected ==
  /\ stale[5] > 0
  /\ stale' = [stale EXCEPT ![5] = @ - 1]
  /\ nextMessage' = hitTestMessage("reject", nextMessage)
  /\ hitTestSourceRef' = hitTestStored("reject", hitTestSourceRef)
  /\ UNCHANGED <<platformVars, isCameraFlipped, isARSupported, nextSupported,
                 errorMessage, effectDue, isARSessionActive, nextActive,
                 capturedActive, asyncVars,
                 model, marker,
                 referenceSpaceRef, session, attempt, loopDead, lastHit>>

\* ------------------------------------- session listeners (243-272)
\* Variant of sessionstartModel that hides the model where it is; C14 must
\* not hold of it.
sessionstartModelInPlace(m) ==
  IF m.loaded THEN [m EXCEPT !.visible = FALSE] ELSE m

\* 'sessionstart' listener: the model is hidden and moved in front of the camera.
sessionstartModel(m) ==
  IF m.loaded THEN [m EXCEPT !.visible = FALSE, !.position = <<0, 0, ARDefaultZ>>]
              ELSE m

\* 'sessionend' listener: the model is shown again, its position and rotation set.
sessionendModel(m) ==
  IF m.loaded THEN [m EXCEPT !.visible = TRUE, !.position = <<0, 0, ARDefaultZ>>,
                             !.quaternion = IdQ]
              ELSE m

\* Variant of sessionendMarker that leaves the marker as it is; C13 must not
\* hold of it.
sessionendMarkerKept(mk) == mk

\* 'sessionend' listener: the marker is hidden.
sessionendMarker(mk) == [mk EXCEPT !.visible = FALSE]

\* renderer.xr.setSession(session) has requested its own reference space
\* ('local-floor', the renderer's default type) and got it: the session is
\* presented, the XR animation loop starts and 'sessionstart' is dispatched.
\* The listener queues setIsARSessionActive(true) for a later render.
SessionStartEvent ==
  /\ session.state = "active"
  /\ session.three = "pending"
  /\ session.floor /= "no"
  /\ session' = [session EXCEPT !.three = "presenting", !.floor = "yes"]
  /\ nextActive' = TRUE
  /\ model' = sessionstartModel(model)
  /\ loopDead' = FALSE
  /\ UNCHANGED <<platformVars, isCameraFlipped, isARSupported, nextSupported,
                 errorMessage, nextMessage, effectDue, isARSessionActive,
                 capturedActive, asyncVars,
                 marker, hitTestSourceRef,
                 referenceSpaceRef, attempt, stale, lastHit>>

\* The renderer's own reference-space request rejected: setSession's promise
\* rejects unobserved and 'sessionstart' is never dispatched.
SessionStartFails ==
  /\ session.state = "active"
  /\ session.three = "pending"
  /\ session.floor /= "yes"
  /\ session' = [session EXCEPT !.three = "failed", !.floor = "no"]
  /\ UNCHANGED <<platformVars, reactVars, capturedActive, asyncVars, model,
                 marker, refVars, attempt, stale, loopDead, lastHit>>

\* stopARSession (82-86): rendererRef.current.xr.getSession()?.end() ends the
\* session only if the current renderer is the one that holds it.
stopEnds(s) == s.state = "active" /\ s.current

\* The Stop AR button: onClick = stopARSession.
StopClick ==
  /\ ControlRendered
  /\ isARSessionActive
  /\ session' = IF stopEnds(session) THEN [session EXCEPT !.state = "ending"]
                                     ELSE session
  /\ UNCHANGED <<platformVars, reactVars, capturedActive, asyncVars, model,
                 marker, refVars, attempt, stale, loopDead, lastHit>>

\* The session's 'end' event (after end(), or when the platform ends the
\* session): the renderer that holds the session dispatches 'sessionend' to
\* the listener its effect run added, which queues
\* setIsARSessionActive(false) for a later render.
SessionEndEvent ==
  /\ session.state \in {"active", "ending"}
  /\ session' = EndedSession
  /\ attempt' = IF attempt.pc \in {"ref", "hit"} THEN IdleAttempt ELSE attempt
  /\ stale' = leftWaiting(stale, attempt)
  /\ loopDead' = FALSE
  /\ nextActive' = FALSE
  /\ model' = sessionendModel(model)
  /\ marker' = sessionendMarker(marker)
  /\ lastHit' = NoQuery
  /\ UNCHANGED <<platformVars, isCameraFlipped, isARSupported, nextSupported,
                 errorMessage, nextMessage, effectDue, isARSessionActive,
                 capturedActive, asyncVars, refVars>>

\* ------------------------------------------------- onSelect (275-298)
\* Variant of onSelect without the test of line 277; C6 must not hold of it.
onSelectUnguarded(m, mk) ==
  [m EXCEPT !.position = <<mk.position[1], mk.position[2] + SelectOffsetY,
                           mk.position[3]>>,
            !.quaternion = mk.quaternion,
            !.visible = TRUE]

onSelect(m, mk) ==
  IF m.loaded /\ mk.visible
    THEN [m EXCEPT !.position = <<mk.position[1],
                                  mk.position[2] + SelectOffsetY,
                                  mk.position[3]>>,
                   !.quaternion = mk.quaternion,
                   !.visible = TRUE]
    ELSE m

\* A 'select' of the presented session's input source, dispatched by the
\* controller of the renderer that holds the session; the listener is on the
\* controller of the latest effect run only (the cleanup removed the others).
Select ==
  /\ session.state = "active"
  /\ session.three = "presenting"
  /\ session.current
  /\ model' = onSelect(model, marker)
  /\ UNCHANGED <<platformVars, reactVars, capturedActive, asyncVars, marker,
                 refVars, session, attempt, stale, loopDead, lastHit>>

\* ------------------------------------- animation loop (301-330)
\* Whether onXRFrame queries the hit-test source (302).
queries(src, ref) == src /= "null" /\ ref /= NoRef

\* pulseAnimation (173-186): the marker's scale vector.
pulseAnimation(mk, s) == [mk EXCEPT !.scale = s]

\* Variant of onXRFrame without the else branch of lines 312-314; C5 must
\* not hold of it.
onXRFrameKeeping(mk, results, s) ==
  IF Len(results) > 0 /\ results[1] /= NoPose
    THEN pulseAnimation([mk EXCEPT !.visible = TRUE,
                                   !.matrix = PoseMatrix(results[1])], s)
    ELSE mk

\* onXRFrame (301-316) on the results of frame.getHitTestResults.
onXRFrame(mk, results, s) ==
  IF Len(results) > 0
    THEN IF results[1] /= NoPose
           THEN pulseAnimation([mk EXCEPT !.visible = TRUE,
                                          !.matrix = PoseMatrix(results[1])], s)
           ELSE mk
    ELSE [mk EXCEPT !.visible = FALSE]

\* renderer.render(scene, camera): scene.updateMatrixWorld() recomposes the
\* matrix of every object whose matrixAutoUpdate is set (the default, which
\* the component leaves) from its position, quaternion and scale.
render(mk) == [mk EXCEPT !.matrix = Compose(mk.position, mk.quaternion, mk.scale)]

\* What the latest query gave markerRef.current.
hitAfter(results, cur) ==
  IF Len(results) = 0 THEN NoHit
  ELSE IF results[1] /= NoPose THEN results[1] ELSE cur

\* if (!isARSessionActive) controls.update(), on the value the effect run of
\* that loop captured (326)
updatesControls(captured) == ~captured

\* The XR animation loop of the renderer that presents the session runs.
XRLoopRuns ==
  session.state = "active" /\ session.three = "presenting" /\ ~loopDead

\* A frame of the XR animation loop whose hit-test query returned results.
\* The scene rendered is that of the renderer that holds the session; the
\* marker is markerRef.current.
XRFrameQuery(results, s) ==
  /\ XRLoopRuns
  /\ queries(hitTestSourceRef, referenceSpaceRef)
  /\ hitTestSourceRef = "own"
  /\ marker' = IF session.current THEN render(onXRFrame(marker, results, s))
                                  ELSE onXRFrame(marker, results, s)
  /\ lastHit' = hitAfter(results, lastHit)
  /\ UNCHANGED <<platformVars, reactVars, capturedActive, asyncVars, model,
                 refVars, session, attempt, stale, loopDead>>

\* A frame whose query throws: the source in hitTestSourceRef is of another
\* session.  The exception leaves the callback before controls.update and
\* render, and the loop does not request another frame.
XRFrameThrows ==
  /\ XRLoopRuns
  /\ queries(hitTestSourceRef, referenceSpaceRef)
  /\ hitTestSourceRef /= "own"
  /\ loopDead' = TRUE
  /\ UNCHANGED <<platformVars, reactVars, capturedActive, asyncVars, model,
                 marker, refVars, session, attempt, stale, lastHit>>

\* A frame without a query: no hit-test source or no reference space yet.
XRFrameIdle ==
  /\ XRLoopRuns
  /\ ~queries(hitTestSourceRef, referenceSpaceRef)
  /\ marker' = IF session.current THEN render(marker) ELSE marker
  /\ UNCHANGED <<platformVars, reactVars, capturedActive, asyncVars, model,
                 refVars, session, attempt, stale, loopDead, lastHit>>

XRFrame ==
  \/ \E results \in HitResults, s \in PulseScales : XRFrameQuery(results, s)
  \/ XRFrameThrows
  \/ XRFrameIdle

\* Whether the current renderer presents the session (its window loop is
\* stopped from 'sessionstart' to 'sessionend').
Presenting ==
  session.current /\ session.three = "presenting" /\ session.state /= "ended"

\* A frame of the window animation loop of the current renderer (frame is
\* undefined, so onXRFrame is not called).
WindowFrame ==
  /\ ~Presenting
  /\ marker' = render(marker)
  /\ UNCHANGED <<platformVars, reactVars, capturedActive, asyncVars, model,
                 refVars, session, attempt, stale, loopDead, lastHit>>

Next ==
  \/ SupportResolved
  \/ Rerender
  \/ EffectRerun
  \/ FlipClick
  \/ LoadDone
  \/ LoadError
  \/ StartClick
  \/ SessionGranted
  \/ SessionRejected
  \/ RefSpaceGranted
  \/ RefSpaceRejected
  \/ HitTestSettled
  \/ \E k \in Stages : StaleRefSpaceRejected(k)
  \/ StaleHitTestRejected
  \/ SessionStartEvent
  \/ SessionStartFails
  \/ StopClick
  \/ SessionEndEvent
  \/ Select
  \/ XRFrame
  \/ WindowFrame

Spec == Init /\ [][Next]_vars

\* --------------------------------- certificate script (generate-cert.js)
componentVars == <<xr, center, isCameraFlipped, isARSupported, nextSupported,
                   errorMessage, nextMessage, effectDue,
                   isARSessionActive, nextActive, capturedActive, pendingChecks,
                   pendingLoads, model, marker, hitTestSourceRef,
                   referenceSpaceRef, session, attempt, stale, loopDead, lastHit>>

\* if (!fs.existsSync(certsDir)) fs.mkdirSync(certsDir) (7-9)
MakeDir ==
  /\ script.pc = "mkdir"
  /\ \E ok \in BOOLEAN :
       /\ script.dir => ok
       /\ script' = [advance(script, "mkdir", ok) EXCEPT !.dir = ok]
  /\ UNCHANGED componentVars

\* execSync(openssl genrsa -out key.pem) (14)
GenKey ==
  /\ script.pc = "key"
  /\ \/ script' = [advance(script, "key", TRUE) EXCEPT !.key = "new"]
     \/ \E f \in afterFailure(script.key) :
          script' = [advance(script, "key", FALSE) EXCEPT !.key = f]
  /\ UNCHANGED componentVars

\* execSync(openssl req -new -key key.pem -out csr.pem) (17)
GenCsr ==
  /\ script.pc = "csr"
  /\ \/ /\ script.key = "new"
        /\ script' = [advance(script, "csr", TRUE) EXCEPT !.csr = "new"]
     \/ \E f \in afterFailure(script.csr) :
          script' = [advance(script, "csr", FALSE) EXCEPT !.csr = f]
  /\ UNCHANGED componentVars

\* execSync(openssl x509 -req -in csr.pem -signkey key.pem -out cert.pem) (20)
GenCert ==
  /\ script.pc = "cert"
  /\ \/ /\ script.key = "new" /\ script.csr = "new"
        /\ script' = [advance(script, "cert", TRUE) EXCEPT !.cert = "new"]
     \/ \E f \in afterFailure(script.cert) :
          script' = [advance(script, "cert", FALSE) EXCEPT !.cert = f]
  /\ UNCHANGED componentVars

\* fs.unlinkSync(csr.pem), then the success log (23-25)
Unlink ==
  /\ script.pc = "unlink"
  /\ \/ /\ script.csr /= "none"
        /\ script' = [advance(script, "unlink", TRUE) EXCEPT !.csr = "none"]
     \/ script' = advance(script, "unlink", FALSE)
  /\ UNCHANGED componentVars

\* A run of the script, beside a page that is not touched.
CertInit ==
  /\ ComponentInit
  /\ xr = "absent"
  /\ center = Origin
  /\ script \in ScriptStarts

CertNext == MakeDir \/ GenKey \/ GenCsr \/ GenCert \/ Unlink

CertSpec == CertInit /\ [][CertNext]_vars


\* ------------------------------------------------------------------ claims
\* C1: every select that occurs while a model is loaded and the marker is
\* visible at the transform T of the latest hit-test pose leaves the model
\* visible at T's position plus the vertical offset.  The code copies
\* marker.position, which no statement ever sets, so this does not hold.
C1_SelectPlacesModelAtPose ==
  [][Select /\ model.loaded /\ marker.visible
       => model'.visible /\ model'.position = <<lastHit.p[1], lastHit.p[2] + SelectOffsetY,
                                lastHit.p[3]>>]_vars

\* C2 as stated: when local-floor, bounded-floor and local were rejected and
\* viewer is granted, the session is kept with viewer stored and no hit-test
\* source request is issued.
C2_ViewerOnlyIssuesNoHitTest ==
  [][RefSpaceGranted /\ attempt.reqs = referenceSpaceTypes
       => /\ session'.state = "active"
          /\ referenceSpaceRef' = [of |-> "own", type |-> "viewer"]
          /\ attempt'.pc /= "hit"]_vars

\* C2 amended: when local-floor, bounded-floor and local were rejected and
\* viewer is granted, the session is kept with viewer stored as the selected
\* reference space, and the hit-test source request is then issued exactly
\* when the session has the requestHitTestSource operation.
C2_ViewerOnlyStoresViewerThenRequests ==
  [][\A hasFn \in BOOLEAN :
       RefSpaceGrantedWith(hasFn) /\ attempt.reqs = referenceSpaceTypes
         => /\ session'.state = "active"
            /\ referenceSpaceRef' = [of |-> "own", type |-> "viewer"]
            /\ (attempt'.pc = "hit") = hasFn]_vars

\* A hit-test source request is pending on a session whose stored reference
\* space is viewer: the three earlier types were rejected.
C2_Witness ==
  /\ session.state = "active"
  /\ referenceSpaceRef = [of |-> "own", type |-> "viewer"]
  /\ attempt.pc = "hit"

\* C3: after every session-end event the model (if one is loaded) is visible
\* at the position and orientation the load gave it for the preview, and the
\* marker is hidden.  The listener sets the position to (0, 0, -0.5) instead.
C3_SessionEndRestoresPreviewPose ==
  [][SessionEndEvent
       => /\ ~marker'.visible
          /\ model.loaded => /\ model'.visible
                             /\ model'.position = onLoad(center).position
                             /\ model'.quaternion = onLoad(center).quaternion]_vars

\* C4: after every frame of the XR loop in which the query on the active
\* source returned a first result with a pose, the marker is visible and its
\* matrix is that pose's matrix.  The frame ends with renderer.render, which
\* recomposes the matrix from position, quaternion and scale.
C4_MarkerMatrixIsPoseMatrix ==
  [][\A results \in HitResults, s \in PulseScales :
       XRFrameQuery(results, s) /\ Len(results) > 0 /\ results[1] /= NoPose
         => marker'.visible /\ marker'.matrix = PoseMatrix(results[1])]_vars

\* C5: after every frame of the XR loop in which the query on the active
\* source returned no result the marker is hidden, whatever it was before.
C5_NoResultHidesMarker ==
  [][\A s \in PulseScales :
       XRFrameQuery(<<>>, s) => ~marker'.visible /\ lastHit' = NoHit]_vars

\* The marker is hidden because the latest query of the session returned no
\* result, after an earlier query had shown (and pulsed) it.
C5_Witness ==
  /\ XRLoopRuns
  /\ hitTestSourceRef = "own" /\ referenceSpaceRef.of = "own"
  /\ lastHit = NoHit
  /\ ~marker.visible
  /\ marker.scale /= UnitScale

\* C6: a select while the marker is hidden or no model is loaded changes
\* neither the model, nor the marker, nor the session state.
C6_SelectWithoutMarkerOrModelIsNoOp ==
  [][Select /\ (~marker.visible \/ ~model.loaded)
       => UNCHANGED <<model, marker, lastHit, session, isARSessionActive,
                      nextActive, hitTestSourceRef, referenceSpaceRef>>]_vars

\* A presented session delivers selects to the component while the marker is
\* hidden and the loaded model still awaits its placement.
C6_Witness ==
  /\ session.state = "active" /\ session.three = "presenting" /\ session.current
  /\ model.loaded /\ ~model.visible
  /\ ~marker.visible

\* C7: the start/stop control is rendered only once the support query has
\* answered "supported" (it appears with the render that follows the
\* answer).  On a platform without the XR API the control is never rendered
\* and a message is set from the start; once the query has answered
\* "unsupported" or failed the control is not rendered and a message is set,
\* from then on.  Every render shows the message set, and a message shown
\* on such a platform stays shown.
C7_ControlOnlyWhenSupported ==
  /\ [](ControlRendered => xr = "supported" /\ nextSupported)
  /\ [][~ControlRendered /\ ControlRendered' => Rerender /\ nextSupported]_vars
  /\ [](xr = "absent" => ~ControlRendered /\ MessageSet)
  /\ [][SupportResolved /\ xr \in {"unsupported", "error"}
          => ~ControlRendered' /\ MessageSet']_vars
  /\ [][xr /= "supported" /\ MessageSet => ~ControlRendered' /\ MessageSet']_vars
  /\ [][Rerender => (MessageShown' <=> MessageSet)]_vars
  /\ [][xr /= "supported" /\ MessageShown => MessageShown']_vars
  /\ [](xr /= "supported" /\ MessageSet /\ ~renderDue => MessageShown)

\* The query has answered "unsupported" and the answer has been rendered:
\* no control, and the message on screen.
C7_Witness ==
  /\ xr = "unsupported"
  /\ pendingChecks = 0
  /\ ~renderDue
  /\ ~ControlRendered
  /\ errorMessage = MsgUnsupported

\* C8: the reference spaces requested by a call are a prefix of local-floor,
\* bounded-floor, local, viewer; a grant stores the space of the type
\* requested last and ends the requests of the call; the rejection of the
\* fourth request stores nothing, sets the failure message and ends the call.
C8_ReferenceSpaceOrder ==
  /\ [](attempt.pc = "ref"
          => /\ Len(attempt.reqs) \in 1..Len(referenceSpaceTypes)
             /\ attempt.reqs = SubSeq(referenceSpaceTypes, 1, Len(attempt.reqs)))
  /\ [][RefSpaceGranted
          => /\ referenceSpaceRef' =
                  [of |-> "own", type |-> attempt.reqs[Len(attempt.reqs)]]
             /\ attempt'.pc /= "ref"]_vars
  /\ [][RefSpaceRejected /\ attempt.reqs = referenceSpaceTypes
          => /\ referenceSpaceRef' = referenceSpaceRef
             /\ nextMessage' = MsgStart
             /\ attempt'.pc = "idle"]_vars
  /\ [][\A k \in 1..Len(referenceSpaceTypes) :
          StaleRefSpaceRejected(k)
            => /\ referenceSpaceRef' = referenceSpaceRef
               /\ IF k < Len(referenceSpaceTypes)
                    THEN stale'[k + 1] = stale[k + 1] + 1
                    ELSE nextMessage' = MsgStart /\ InFlight' = InFlight - 1]_vars

\* local-floor and bounded-floor were rejected, local was granted and stored,
\* and the call has gone on to the hit-test source.
C8_Witness ==
  /\ referenceSpaceRef = [of |-> "own", type |-> "local"]
  /\ attempt.pc = "hit"

\* C9: when the reference space is granted but no hit-test source is obtained
\* (no requestHitTestSource operation, a rejection, or no source), the
\* session stays active with no source of it installed, the marker is not
\* visible, and a message is set for display.  Only the rejection sets a
\* message.
C9_NoSourceSurfacesWarning ==
  [][(\/ RefSpaceGrantedWith(FALSE)
      \/ HitTestSettledWith("null")
      \/ HitTestSettledWith("reject") /\ Live)
       => /\ session'.state = "active"
          /\ hitTestSourceRef' /= "own"
          /\ ~marker'.visible
          /\ MessageSet']_vars

\* C10: while an AR session is active the orbit controls are disabled and the
\* running loop does not update them; otherwise they are enabled and the
\* loop updates them.  Both follow the isARSessionActive captured by an
\* effect run, which the render of the flag set by 'sessionstart' or
\* 'sessionend' does not cause.
C10_ControlsFollowSession ==
  IF isARSessionActive
    THEN ~ControlsEnabled /\ (XRLoopRuns => ~updatesControls(session.captured))
    ELSE ControlsEnabled /\ updatesControls(capturedActive)

\* C11: a failed start attempt (the session request rejected, or the fourth
\* reference-space request of a granted session rejected) leaves a message
\* set for display, no session active, the control offering Start, and the platform
\* free to take a fresh session request.  The outer catch does not end a
\* session that was granted before the failure.
C11_FailedStartLeavesNoSession ==
  [][(\/ SessionRejected
      \/ RefSpaceRejected /\ attempt.reqs = referenceSpaceTypes)
       => /\ MessageSet'
          /\ ControlLabel' = "Start AR"
          /\ session'.state /= "active"
          /\ ~Busy']_vars

\* C12 as stated: the script runs key, request, certificate in order, no
\* operation runs after a failed one, it exits non-zero exactly when one of
\* the three generation steps failed, and when all three succeeded csr.pem
\* is gone and key.pem and cert.pem are there.  A failed mkdirSync or
\* unlinkSync also ends the process with a non-zero code.
C12_ExitNonZeroIffGenerationFails ==
  /\ script.ran = SubSeq(<<"key", "csr", "cert", "unlink">>, 1, Len(script.ran))
  /\ script.failed /= "none" => script.pc = "exited"
  /\ script.pc = "exited"
       => /\ script.exit /= 0 <=> script.failed \in {"key", "csr", "cert"}
          /\ Len(script.ran) = 4 /\ script.failed \notin {"key", "csr", "cert"}
               => /\ script.csr = "none"
                  /\ script.key = "new" /\ script.cert = "new"

\* C12 amended: the script runs key, request, certificate, removal in order,
\* no operation runs after a failed one, it exits non-zero exactly when some
\* operation failed (the creation of the output directory, a generation
\* step, or the removal of csr.pem), and when it exits zero csr.pem is gone
\* and key.pem and cert.pem are the ones this run generated.
C12_ExitNonZeroIffOperationFails ==
  /\ script.ran = SubSeq(<<"key", "csr", "cert", "unlink">>, 1, Len(script.ran))
  /\ script.failed /= "none"
       => /\ script.pc = "exited"
          /\ IF script.failed = "mkdir" THEN script.ran = <<>>
                ELSE script.ran[Len(script.ran)] = script.failed
  /\ script.pc = "exited"
       => /\ script.exit /= 0 <=> script.failed /= "none"
          /\ script.exit = 0
               => /\ script.ran = <<"key", "csr", "cert", "unlink">>
                  /\ script.dir
                  /\ script.csr = "none"
                  /\ script.key = "new" /\ script.cert = "new"

\* A run in which every operation succeeded has exited.
C12_Witness ==
  /\ script.pc = "exited" /\ script.exit = 0
  /\ script.ran = <<"key", "csr", "cert", "unlink">>
  /\ script.csr = "none" /\ script.key = "new" /\ script.cert = "new"

\* C13: in every state the marker (markerRef.current) is visible only if the
\* latest hit-test query of a session still in being gave it a pose and no
\* query since returned an empty list; it is hidden while no query has run
\* on it and once the session has ended.
C13_MarkerVisibleOnlyAfterResult ==
  /\ marker.visible => lastHit \in Poses /\ session.state \in {"active", "ending"}
  /\ lastHit \in {NoQuery, NoHit} => ~marker.visible
  /\ session.state \in {"none", "ended"} => ~marker.visible

\* The session in which the marker had been shown has ended, and the marker
\* is hidden.
C13_Witness ==
  /\ session.state = "ended"
  /\ marker.scale /= UnitScale
  /\ ~marker.visible

\* C14 as stated: once the model is loaded, a step changes its position or
\* orientation only if it is a select.  The 'sessionstart' listener moves
\* the model as well.
C14_TransformChangedOnlyBySelect ==
  [][model.loaded /\ (\/ model'.position /= model.position
                      \/ model'.quaternion /= model.quaternion)
       => Select]_vars

\* C14 amended: once the model is loaded, a step changes its position or
\* orientation only if it is a select, the 'sessionstart' listener (which
\* moves it to (0, 0, -0.5) and keeps its orientation), the 'sessionend'
\* listener (position (0, 0, -0.5), rotation reset) or the completion of a
\* later asset load (which replaces it by a model at the preview pose); no
\* frame, acquisition or other step does.
C14_TransformChangedOnlyBySelectSessionOrLoad ==
  [][model.loaded
       => /\ (\/ model'.position /= model.position
              \/ model'.quaternion /= model.quaternion)
               => Select \/ SessionStartEvent \/ SessionEndEvent \/ LoadDone
          /\ SessionStartEvent => /\ model'.position = <<0, 0, ARDefaultZ>>
                                  /\ model'.quaternion = model.quaternion
          /\ SessionEndEvent => /\ model'.position = <<0, 0, ARDefaultZ>>
                                /\ model'.quaternion = IdQ
          /\ LoadDone => /\ model'.position = Neg(center)
                         /\ model'.quaternion = IdQ]_vars

\* A session has started on a model loaded at the origin: the model waits,
\* hidden, half a unit in front of the camera without any select.
C14_Witness ==
  /\ isARSessionActive
  /\ center = Origin
  /\ model.loaded /\ ~model.visible
  /\ model.position = <<0, 0, ARDefaultZ>>

\* C15: the hit-test source and the reference space are held only while
\* their session lasts: with no session, or after the session-end event,
\* hitTestSourceRef and referenceSpaceRef are empty.  No statement ever
\* empties them.
C15_RefsReleasedAfterSessionEnd ==
  session.state \in {"none", "ended"}
    => hitTestSourceRef = "null" /\ referenceSpaceRef = NoRef

\* C16: in every state where the session-active flag is set (and no reset
\* of it awaits a render) and the control offers Stop, stopARSession ends
\* the active session (or its end is already under way), so that the
\* session-end listener follows.  After an effect re-run the current
\* renderer has no session to end.
C16_StopEndsActiveSession ==
  isARSessionActive /\ nextActive /\ ControlRendered
    => stopEnds(session) \/ session.state = "ending"

\* C17: whenever a frame of the running XR loop queries, the hit-test source
\* and the reference space it uses are those acquired for the session that
\* is active.  Those of an ended session stay in the refs and are queried.
C17_FrameQueriesOnlyOwnSource ==
  XRLoopRuns /\ queries(hitTestSourceRef, referenceSpaceRef)
    => hitTestSourceRef = "own" /\ referenceSpaceRef.of = "own"

\* C18: while a session is active the model is invisible until a select of
\* that session places it: 'sessionstart' leaves it invisible, and between
\* 'sessionstart' and 'sessionend' it becomes visible by a select only.  An
\* asset load that completes during the session shows it.
C18_ModelHiddenUntilSelect ==
  /\ [][SessionStartEvent => ~model'.visible]_vars
  /\ [][nextActive /\ nextActive' /\ ~model.visible /\ model'.visible
          => Select]_vars

\* C19: once an operation has set a non-empty error message, the message is
\* non-empty in every later state (no step clears it, a later successful
\* start included); every render from then on shows a message, and a
\* message on screen stays on screen.
C19_ErrorMessageNeverCleared ==
  /\ [][MessageSet => MessageSet']_vars
  /\ [][MessageShown => MessageShown']_vars
  /\ [](MessageShown => MessageSet)
  /\ [][Rerender /\ MessageSet => MessageShown']_vars

\* A start attempt failed, and the message it set is still on screen during
\* a later session that has its hit-test source.
C19_Witness ==
  /\ errorMessage = MsgStart
  /\ nextMessage = MsgStart
  /\ isARSessionActive
  /\ hitTestSourceRef = "own"

\* C20: the page's camera-flip button changes, besides the flag behind its
\* label, neither the model's pose and visibility, nor the marker's
\* visibility, nor the session-active flag.  The flag is a dependency of the
\* scene effect, which builds a new scene, marker and renderer.
C20_FlipChangesOnlyLabel ==
  [][FlipClick
       => /\ model' = model
          /\ marker'.visible = marker.visible
          /\ isARSessionActive' = isARSessionActive]_vars

=============================================================================
